---- MODULE Spec2Model ----
(***************************************************************************)
(* gh-skyline: the STL generation pipeline (stl/generator.go), the box and  *)
(* quad primitives (stl/geometry/shapes.go), the vector helpers            *)
(* (stl/geometry/vector.go), the contribution lattice                      *)
(* (stl/geometry/geometry.go) and the singleton logger (logger/logger.go). *)
(*                                                                         *)
(* Lengths are integers counted in half model units (CellSize = 2.5 is 5), *)
(* so every constant of geometry.go is exact.  A cross product of two edge *)
(* vectors is then an integer too, and |c| < 1e-10 holds exactly when      *)
(* c = 0: magnitudes below half a unit are outside the model.              *)
(***************************************************************************)
EXTENDS Integers, Sequences, FiniteSets, TLC

\* ------------------------------------------------------------------ bounds
MaxYears == 2
MaxWeeks == 1
MaxDays == 2
MaxCount == 2
MaxCoord == 1
MaxDim == 2
MaxMesh == 2
MaxName == 4
MaxParts == 3
MaxYearCount == 60
MaxCalls == 3

\* ------------------------------------------------------- program constants
CellSize == 5
BaseHeight == 20
MaxHeight == 50
GridSize == 53
MinHeight == CellSize
DaysPerWeek == 7
githubLaunchYear == 2008

DEBUG == 0
INFO == 1
WARNING == 2
ERROR == 3

\* ------------------------------------------------------------------ errors
\* Errors are [Type, Message, Err]: Message is the chain of messages, outermost
\* first; Err is the Type of the cause.  A nil error:
Nil == [Type |-> "nil", Message |-> <<>>, Err |-> "nil"]

\* errors.New: Err keeps the Type of the error it wraps ("nil" for none).
New(errType, message, err) == [Type |-> errType, Message |-> <<message>>, Err |-> err.Type]

\* An error that is no SkylineError: what log.Logger.Output or the file system returns.
Foreign(message) == [Type |-> "other", Message |-> <<message>>, Err |-> "nil"]

\* errors.Wrap: nil stays nil; a SkylineError keeps its Type and its cause, and the
\* message is put in front of its own ("message: inner"); any other error becomes
\* the cause of an STLError.
Wrap(err, message) ==
    IF err = Nil THEN Nil
    ELSE IF err.Type = "other"
    THEN [Type |-> "STL", Message |-> <<message>>, Err |-> "other"]
    ELSE [Type |-> err.Type, Message |-> <<message>> \o err.Message, Err |-> err.Err]

\* ------------------------------------------------------------ vector math
Point3D(x, y, z) == [X |-> x, Y |-> y, Z |-> z]

Abs(n) == IF n < 0 THEN -n ELSE n

\* math.Sqrt on the model's integers: the integer square root.
RECURSIVE SqrtBetween(_, _, _)
SqrtBetween(n, lo, hi) ==
    IF lo >= hi THEN lo
    ELSE LET mid == (lo + hi + 1) \div 2
         IN  IF mid * mid <= n THEN SqrtBetween(n, mid, hi)
             ELSE SqrtBetween(n, lo, mid - 1)

Sqrt(n) == SqrtBetween(n, 0, IF n < 46340 THEN n ELSE 46340)

\* The float64 values that are no numbers of the lattice: NaN and the two
\* infinities, as three integers far outside it.  No arithmetic is applied to them.
NaN == 10001
PosInf == 10002
NegInf == 0 - PosInf

\* Point3D.IsValid: no component is NaN or infinite.
IsValid(p) == {p.X, p.Y, p.Z} \cap {NaN, PosInf, NegInf} = {}

\* Mutant: every vector is taken as valid.
validateVector_lenient(v) == Nil

validateVector(v) ==
    IF ~IsValid(v) THEN New("VALIDATION", "vector contains invalid components", Nil)
    ELSE Nil

\* Mutant: no vector is taken as zero.
isZeroVector_never(v) == FALSE

isZeroVector(v) == Abs(v.X) < 1 /\ Abs(v.Y) < 1 /\ Abs(v.Z) < 1

vectorSubtract(a, b) == Point3D(a.X - b.X, a.Y - b.Y, a.Z - b.Z)

vectorCross(u, v) ==
    Point3D(u.Y * v.Z - u.Z * v.Y,
            u.Z * v.X - u.X * v.Z,
            u.X * v.Y - u.Y * v.X)

\* Division truncating toward zero, as a float quotient rounded to the lattice.
Quot(a, b) == IF a < 0 THEN -((-a) \div b) ELSE a \div b

\* Mutant: the cross product is returned without being scaled to length 1.
normalizeVector_unscaled(v) == v

normalizeVector(v) ==
    LET length == Sqrt(v.X * v.X + v.Y * v.Y + v.Z * v.Z)
    IN  IF length > 0
        THEN Point3D(Quot(v.X, length), Quot(v.Y, length), Quot(v.Z, length))
        ELSE v

\* Returns [normal, err].
calculateNormal(p1, p2, p3) ==
    LET bad == {p \in {p1, p2, p3} : validateVector(p) # Nil}
        u == vectorSubtract(p2, p1)
        v == vectorSubtract(p3, p1)
        normal == vectorCross(u, v)
    IN  IF bad # {}
        THEN [normal |-> Point3D(0, 0, 0),
              err |-> New("VALIDATION", "vector contains invalid components", Nil)]
        ELSE IF isZeroVector(normal)
        THEN [normal |-> Point3D(0, 0, 0),
              err |-> New("VALIDATION", "degenerate triangle", Nil)]
        ELSE [normal |-> normalizeVector(normal), err |-> Nil]

\* ------------------------------------------------------- boxes and quads
Triangle(n, a, b, c) == [Normal |-> n, V1 |-> a, V2 |-> b, V3 |-> c]

\* Returns [triangles, err].
CreateQuad(v1, v2, v3, v4) ==
    LET r == calculateNormal(v1, v2, v3)
    IN  IF r.err # Nil
        THEN [triangles |-> <<>>, err |-> Wrap(r.err, "failed to calculate quad normal")]
        ELSE [triangles |-> << Triangle(r.normal, v1, v2, v3),
                               Triangle(r.normal, v1, v3, v4) >>,
              err |-> Nil]

\* The face table of createBox, indices into its vertices (0-based as in Go).
quads ==
    << <<0, 1, 2, 3>>,  \* front
       <<5, 4, 7, 6>>,  \* back
       <<4, 0, 3, 7>>,  \* left
       <<1, 5, 6, 2>>,  \* right
       <<3, 2, 6, 7>>,  \* top
       <<4, 5, 1, 0>> >>  \* bottom

boxVertices(x, y, z, width, height, depth) ==
    << Point3D(x, y, z),
       Point3D(x + width, y, z),
       Point3D(x + width, y + height, z),
       Point3D(x, y + height, z),
       Point3D(x, y, z + depth),
       Point3D(x + width, y, z + depth),
       Point3D(x + width, y + height, z + depth),
       Point3D(x, y + height, z + depth) >>

\* The loop of createBox from face k on, with the triangles collected so far: the
\* first quad error ends it.
RECURSIVE boxFaces(_, _, _)
boxFaces(vertices, k, triangles) ==
    IF k > Len(quads) THEN [triangles |-> triangles, err |-> Nil]
    ELSE LET quad == quads[k]
             q == CreateQuad(vertices[quad[1] + 1], vertices[quad[2] + 1],
                             vertices[quad[3] + 1], vertices[quad[4] + 1])
         IN  IF q.err # Nil
             THEN [triangles |-> <<>>, err |-> New("STL", "failed to create quad", q.err)]
             ELSE boxFaces(vertices, k + 1, triangles \o q.triangles)

\* Mutant: only the width is validated.
createBox_widthOnly(x, y, z, width, height, depth) ==
    IF width < 0
    THEN [triangles |-> <<>>,
          err |-> New("VALIDATION", "negative dimensions not allowed", Nil)]
    ELSE boxFaces(boxVertices(x, y, z, width, height, depth), 1, <<>>)

createBox(x, y, z, width, height, depth) ==
    IF width < 0 \/ height < 0 \/ depth < 0
    THEN [triangles |-> <<>>,
          err |-> New("VALIDATION", "negative dimensions not allowed", Nil)]
    ELSE boxFaces(boxVertices(x, y, z, width, height, depth), 1, <<>>)

CreateCuboidBase(width, depth) == createBox(0, 0, -BaseHeight, width, depth, BaseHeight)

\* Mutant: the height is ignored, every column is a cube.
CreateColumn_cube(x, y, height, size) == createBox(x, y, 0, size, size, size)

CreateColumn(x, y, height, size) == createBox(x, y, 0, size, size, height)

CreateCube(x, y, z, width, height, depth) == createBox(x, y, z, width, height, depth)

\* ------------------------------------------------------------------ state
VARIABLES
    call,            \* the primitive under call: its name and arguments
    ret,             \* what the call returned: [triangles, err], NoRet before it returns
    entry,           \* the function called: GenerateSTLRange, or generateModelGeometry alone
    contributions,   \* [year][week][day] of ContributionDay
    outputPath,
    username,
    absorbed,        \* lattice positions <<x, y>> at which createBox fails on a column
    level,           \* Logger.level
    pc,              \* position of the calling goroutine
    dimensions,      \* modelDimensions
    maxContribution,
    status,          \* "running", "returned" or "panicked"
    err,             \* the error the entry function returned
    writes,          \* number of WriteSTLBinary calls
    geometry,        \* what generateModelGeometry returned: [returned, err]
    remaining,       \* channel names the range over the map has not visited yet
    cur,             \* componentName of the current iteration, "none" outside the loop
    modelTriangles,
    order,           \* the component names in the order their results were received
    closed,          \* channel name -> closed
    wg,              \* the WaitGroup counter
    pcP,             \* producer name -> "idle", "running" (computing, or blocked in its
                     \* send), "returning" (wg.Done not yet run) or "exited"
    results,         \* producer name -> the geometryResult it sent on its channel
    failed           \* producers whose geometry call returned an error

boxVars == <<call, ret>>
inputVars == <<entry, contributions, outputPath, username, absorbed>>
mainVars == <<pc, dimensions, maxContribution, status, err, writes, geometry>>
asmVars == <<remaining, cur, modelTriangles, order, closed, wg>>
prodVars == <<pcP, results, failed>>

vars == <<boxVars, inputVars, level, mainVars, asmVars, prodVars>>

NoRet == [triangles |-> <<>>, err |-> [Type |-> "pending", Message |-> <<>>, Err |-> "nil"]]
NoCall == [op |-> "none", x |-> 0, y |-> 0, z |-> 0, width |-> 0, height |-> 0, depth |-> 0]

Producers == {"base", "columns", "text", "image"}

\* The zero modelDimensions.
NoDimensions == [innerWidth |-> 0, innerDepth |-> 0, imagePath |-> ""]

\* geometryResult; nilTriangles tells a nil slice from an empty one.
geometryResult(triangles, isNil, e) == [triangles |-> triangles, nilTriangles |-> isNil, err |-> e]
NoResult == geometryResult(<<>>, TRUE, Nil)

\* The pipeline before any call.
PipelineIdle ==
    /\ entry = "none"
    /\ contributions = <<>>
    /\ outputPath = ""
    /\ username = ""
    /\ absorbed = {}
    /\ level = INFO
    /\ pc = "done"
    /\ dimensions = NoDimensions
    /\ maxContribution = 0
    /\ status = "running"
    /\ err = Nil
    /\ writes = 0
    /\ geometry = [returned |-> FALSE, err |-> Nil]
    /\ remaining = {}
    /\ cur = "none"
    /\ modelTriangles = <<>>
    /\ order = <<>>
    /\ closed = [n \in Producers |-> FALSE]
    /\ wg = 0
    /\ pcP = [n \in Producers |-> "idle"]
    /\ results = [n \in Producers |-> NoResult]
    /\ failed = {}

pipelineVars == <<inputVars, level, mainVars, asmVars, prodVars>>

\* ------------------------------------------- the primitives, called directly
Coords == (0 - MaxCoord)..MaxCoord
Dims == (0 - 1)..MaxDim

BoxOps == {"createBox", "CreateCube", "CreateColumn", "CreateCuboidBase"}

\* CreateColumn(x, y, height, size) and CreateCuboidBase(width, depth) take fewer
\* arguments: the fields they do not read are 0.
BoxCalls ==
    { c \in [op : BoxOps, x : Coords, y : Coords, z : Coords,
             width : Dims, height : Dims, depth : Dims] :
        /\ c.op = "CreateColumn" => c.z = 0 /\ c.depth = 0
        /\ c.op = "CreateCuboidBase" => c.x = 0 /\ c.y = 0 /\ c.z = 0 /\ c.height = 0 }

BoxInit ==
    /\ call \in BoxCalls
    /\ ret = NoRet
    /\ PipelineIdle

CallCreateBox ==
    /\ ret = NoRet
    /\ call.op = "createBox"
    /\ ret' = createBox(call.x, call.y, call.z, call.width, call.height, call.depth)
    /\ UNCHANGED <<call, pipelineVars>>

CallCreateCube ==
    /\ ret = NoRet
    /\ call.op = "CreateCube"
    /\ ret' = CreateCube(call.x, call.y, call.z, call.width, call.height, call.depth)
    /\ UNCHANGED <<call, pipelineVars>>

\* CreateColumn(x, y, height, size): size is call.width.
CallCreateColumn ==
    /\ ret = NoRet
    /\ call.op = "CreateColumn"
    /\ ret' = CreateColumn(call.x, call.y, call.height, call.width)
    /\ UNCHANGED <<call, pipelineVars>>

\* CreateCuboidBase(width, depth).
CallCreateCuboidBase ==
    /\ ret = NoRet
    /\ call.op = "CreateCuboidBase"
    /\ ret' = CreateCuboidBase(call.width, call.depth)
    /\ UNCHANGED <<call, pipelineVars>>

BoxNext == CallCreateBox \/ CallCreateCube \/ CallCreateColumn \/ CallCreateCuboidBase

BoxSpec == BoxInit /\ [][BoxNext]_vars

\* ------------------------------------------------- properties of the boxes
\* The box a call asks createBox for: minimum corner and the three extents.
boxOf(c) ==
    IF c.op = "CreateColumn"
    THEN [x |-> c.x, y |-> c.y, z |-> 0, dx |-> c.width, dy |-> c.width, dz |-> c.height]
    ELSE IF c.op = "CreateCuboidBase"
    THEN [x |-> 0, y |-> 0, z |-> 0 - BaseHeight, dx |-> c.width, dy |-> c.depth, dz |-> BaseHeight]
    ELSE [x |-> c.x, y |-> c.y, z |-> c.z, dx |-> c.width, dy |-> c.height, dz |-> c.depth]

Returned == ret # NoRet

AllPositive(b) == b.dx > 0 /\ b.dy > 0 /\ b.dz > 0
SomeNegative(b) == b.dx < 0 \/ b.dy < 0 \/ b.dz < 0

TriVertices(t) == {t.V1, t.V2, t.V3}

Corners(b) ==
    { Point3D(px, py, pz) : px \in {b.x, b.x + b.dx}, py \in {b.y, b.y + b.dy},
                            pz \in {b.z, b.z + b.dz} }

\* The outward unit normal of a triangle that lies in one face plane of b.
FaceNormalOK(b, t) ==
    /\ (\A v \in TriVertices(t) : v.X = b.x) => t.Normal = Point3D(0 - 1, 0, 0)
    /\ (\A v \in TriVertices(t) : v.X = b.x + b.dx) => t.Normal = Point3D(1, 0, 0)
    /\ (\A v \in TriVertices(t) : v.Y = b.y) => t.Normal = Point3D(0, 0 - 1, 0)
    /\ (\A v \in TriVertices(t) : v.Y = b.y + b.dy) => t.Normal = Point3D(0, 1, 0)
    /\ (\A v \in TriVertices(t) : v.Z = b.z) => t.Normal = Point3D(0, 0, 0 - 1)
    /\ (\A v \in TriVertices(t) : v.Z = b.z + b.dz) => t.Normal = Point3D(0, 0, 1)

\* C8: every triangle of a box with three positive extents carries the axis unit
\* normal that points away from the interior: -X, -Y, -Z on the minimum planes and
\* +X, +Y, +Z on the maximum planes.
C8_OutwardNormals ==
    (Returned /\ AllPositive(boxOf(call))) =>
        \A i \in 1..Len(ret.triangles) : FaceNormalOK(boxOf(call), ret.triangles[i])

UnitNormal(t) ==
    t.Normal.X * t.Normal.X + t.Normal.Y * t.Normal.Y + t.Normal.Z * t.Normal.Z = 1

C10_AsStated ==
    (Returned /\ ~AllPositive(boxOf(call))) =>
        /\ ret.err.Type = "VALIDATION"
        /\ Len(ret.triangles) = 0

\* C10 amended: a negative extent is rejected with a ValidationError; a zero extent
\* with none negative is rejected too, as an STLError ("failed to create quad")
\* whose cause is the ValidationError of the degenerate face; no triangles either way.
C10_InvalidDimensions ==
    (Returned /\ ~AllPositive(boxOf(call))) =>
        /\ Len(ret.triangles) = 0
        /\ SomeNegative(boxOf(call)) => ret.err.Type = "VALIDATION"
        /\ ~SomeNegative(boxOf(call)) => ret.err.Type = "STL" /\ ret.err.Err = "VALIDATION"

C10_Witness ==
    /\ Returned
    /\ call.op = "CreateColumn"
    /\ call.height = 0 /\ call.width > 0
    /\ ret.err.Type = "STL"

\* ------------------------------------------------------------ the logger
\* logf: a message below the level is dropped and returns nil; otherwise it is
\* written with log.Logger.Output, which returns the writer's error, if any.
logf(msgLevel) == IF level <= msgLevel THEN {Nil, Foreign("write failed")} ELSE {Nil}

Debug == logf(DEBUG)
Info == logf(INFO)
Warning == logf(WARNING)

\* ----------------------------------------------- the contribution lattice
\* Mutant: the guard against a maximum of zero or less is missing, the height is
\* scaled by the count alone.
NormalizeContribution_unguarded(count, maxCount) ==
    IF count = 0 THEN 0
    ELSE MinHeight + Sqrt(count * (MaxHeight - MinHeight) * (MaxHeight - MinHeight))

\* Mutant: the height is scaled by maxCount/count, so it falls as the count grows.
NormalizeContribution_inverted(count, maxCount) ==
    IF count = 0 THEN 0
    ELSE IF maxCount <= 0 THEN MinHeight
    ELSE MinHeight + Sqrt((maxCount * (MaxHeight - MinHeight) * (MaxHeight - MinHeight))
                          \div count)

\* sqrt(count)/sqrt(maxCount) scaled to the height range, rounded down to the lattice.
NormalizeContribution(count, maxCount) ==
    IF count = 0 THEN 0
    ELSE IF maxCount <= 0 THEN MinHeight
    ELSE LET heightRange == MaxHeight - MinHeight
         IN  MinHeight + Sqrt((count * heightRange * heightRange) \div maxCount)

\* Mutant: the depth of a single year is returned for any number of years.
CalculateMultiYearDimensions_oneYear(yearCount) ==
    [width |-> GridSize * CellSize + 2 * CellSize,
     depth |-> DaysPerWeek * CellSize + 2 * CellSize]

\* Mutant: two cells of padding on each side.
CalculateMultiYearDimensions_wide(yearCount) ==
    [width |-> GridSize * CellSize + 4 * CellSize,
     depth |-> DaysPerWeek * yearCount * CellSize + 4 * CellSize]

CalculateMultiYearDimensions(yearCount) ==
    [width |-> GridSize * CellSize + 2 * CellSize,
     depth |-> DaysPerWeek * yearCount * CellSize + 2 * CellSize]

\* The column built for one day.  CreateColumn returns the error of createBox; on
\* the lattice every column has positive edges, so it never does.  The calls whose
\* error return (geometry.go, lines 80-82) is taken are those at the positions of
\* the set absorbed: there createBox is taken to find a face whose edge vanished.
columnAt(x, y, height) ==
    IF <<x, y>> \in absorbed
    THEN [triangles |-> <<>>,
          err |-> New("STL", "failed to create quad",
                      Wrap(New("VALIDATION", "degenerate triangle", Nil),
                           "failed to calculate quad normal"))]
    ELSE CreateColumn(x, y, height, CellSize)

\* The loops of CreateContributionGeometry from day d of week w on, with the
\* triangles collected so far: the first column error ends them.
\* Returns [triangles, err].
RECURSIVE contributionLoop(_, _, _, _, _, _)
contributionLoop(year, yearIndex, maxContrib, w, d, triangles) ==
    IF w > Len(year) THEN [triangles |-> triangles, err |-> Nil]
    ELSE IF d > Len(year[w])
    THEN contributionLoop(year, yearIndex, maxContrib, w + 1, 1, triangles)
    ELSE LET day == year[w][d]
             baseYOffset == CellSize + yearIndex * DaysPerWeek * CellSize
             height == NormalizeContribution(day.ContributionCount, maxContrib)
             x == CellSize + (w - 1) * CellSize
             y == baseYOffset + (d - 1) * CellSize
             column == columnAt(x, y, height)
         IN  IF day.ContributionCount > 0
             THEN IF column.err # Nil
                  THEN [triangles |-> <<>>, err |-> column.err]
                  ELSE contributionLoop(year, yearIndex, maxContrib, w, d + 1,
                                        triangles \o column.triangles)
             ELSE contributionLoop(year, yearIndex, maxContrib, w, d + 1, triangles)

\* Mutant: the year index is ignored, every year is placed at the front.
CreateContributionGeometry_noOffset(year, yearIndex, maxContrib) ==
    contributionLoop(year, 0, maxContrib, 1, 1, <<>>)

CreateContributionGeometry(year, yearIndex, maxContrib) ==
    contributionLoop(year, yearIndex, maxContrib, 1, 1, <<>>)

\* ------------------------------------------------- generator.go, the helpers
validateInput(year, path, user) ==
    IF Len(year) = 0
    THEN New("VALIDATION", "contributions data cannot be empty", Nil)
    ELSE IF Len(year) > GridSize
    THEN New("VALIDATION", "contributions data exceeds maximum grid size", Nil)
    ELSE IF path = ""
    THEN New("VALIDATION", "output path cannot be empty", Nil)
    ELSE IF user = ""
    THEN New("VALIDATION", "username cannot be empty", Nil)
    ELSE Nil

\* Returns [dims, err].
calculateDimensions(yearCount) ==
    IF yearCount <= 0
    THEN [dims |-> NoDimensions,
          err |-> New("VALIDATION", "year count must be positive", Nil)]
    ELSE LET wd == IF yearCount <= 1 THEN CalculateMultiYearDimensions(1)
                   ELSE CalculateMultiYearDimensions(yearCount)
             dims == [innerWidth |-> wd.width, innerDepth |-> wd.depth,
                      imagePath |-> "assets/invertocat.png"]
         IN  IF dims.innerWidth <= 0 \/ dims.innerDepth <= 0
             THEN [dims |-> NoDimensions,
                   err |-> New("VALIDATION", "invalid model dimensions", Nil)]
             ELSE [dims |-> dims, err |-> Nil]

Max(S) == IF S = {} THEN 0 ELSE CHOOSE m \in S : \A n \in S : n <= m

DaysOf(year) == UNION { { <<w, d>> : d \in 1..Len(year[w]) } : w \in 1..Len(year) }

findMaxContributions(year) ==
    Max({0} \cup { year[c[1]][c[2]].ContributionCount : c \in DaysOf(year) })

\* Mutant: the maximum of the first year is taken for all years.
findMaxContributionsAcrossYears_firstYear(contributionsPerYear) ==
    IF contributionsPerYear = <<>> THEN 0 ELSE findMaxContributions(contributionsPerYear[1])

findMaxContributionsAcrossYears(contributionsPerYear) ==
    Max({0} \cup { findMaxContributions(contributionsPerYear[i]) :
                     i \in 1..Len(contributionsPerYear) })

\* ------------------------------------------------ caption text and emblem
\* Create3DText and GenerateImageGeometry rasterise a font and a PNG written to
\* temporary files; whether that succeeds is the environment's (ok).  The bitmap is
\* taken to have one active pixel, (0, 0), which becomes one voxel at the start
\* position of the render configuration.  Returns [triangles, err].
Create3DText(ok, innerWidth, baseHeight) ==
    IF ~ok
    THEN [triangles |-> <<>>, err |-> New("IO", "failed to load any fonts", Foreign("font"))]
    ELSE CreateCube(Quot(0 - innerWidth, 100), 0 - 2, (baseHeight * 7) \div 10, 2, 3, 2)

GenerateImageGeometry(ok, innerWidth, baseHeight) ==
    IF ~ok
    THEN [triangles |-> <<>>, err |-> New("IO", "failed to create temp image file", Foreign("image"))]
    ELSE CreateCube((innerWidth * 25) \div 1000, 0 - 1, Quot(0 - 85 * baseHeight, 100), 1, 3, 1)

\* ------------------------------------------------------ the pipeline, inputs
\* Year grids as the tests build them: count = (index sum) mod (MaxCount + 1).
Year(y, weeks) ==
    [w \in 1..weeks |->
        [d \in 1..MaxDays |-> [ContributionCount |-> (y + w + d) % (MaxCount + 1)]]]

\* Zero to MaxYears years, each of MaxWeeks weeks or of none, the first possibly empty.
Grids ==
    { [y \in 1..n |-> IF y = 1 /\ firstEmpty THEN <<>> ELSE Year(y, weeks)] :
        n \in 0..MaxYears, weeks \in {0, MaxWeeks}, firstEmpty \in BOOLEAN }

\* The grids whose every year has weeks.
FullGrids == { g \in Grids : \A y \in 1..Len(g) : Len(g[y]) > 0 }

\* The lattice position of the column of day c = <<w, d>> of input year i, as
\* generateColumnsForYearRange places it: year i gets year index Len - i (1-based i).
PositionOf(grid, i, c) ==
    <<CellSize + (c[1] - 1) * CellSize,
      CellSize + (Len(grid) - i) * DaysPerWeek * CellSize + (c[2] - 1) * CellSize>>

ActiveDays(year) == { c \in DaysOf(year) : year[c[1]][c[2]].ContributionCount > 0 }

\* The first active day of each year, in loop order.
FirstActive(year) ==
    { c \in ActiveDays(year) :
        \A o \in ActiveDays(year) : c[1] < o[1] \/ (c[1] = o[1] /\ c[2] <= o[2]) }

\* The positions the model lets fail: the first column of a year.
AbsorbablePositions(grid) ==
    UNION { { PositionOf(grid, i, c) : c \in FirstActive(grid[i]) } : i \in 1..Len(grid) }

\* generateModelGeometry called on its own takes the dimensions from its caller.
DirectDimensions ==
    { [innerWidth |-> 0 - CellSize, innerDepth |-> 2 * CellSize,
       imagePath |-> "assets/invertocat.png"] }

Init ==
    /\ call = NoCall
    /\ ret = NoRet
    /\ entry \in {"GenerateSTLRange", "generateModelGeometry"}
    /\ contributions \in (IF entry = "GenerateSTLRange" THEN Grids ELSE FullGrids)
    /\ outputPath \in (IF entry = "GenerateSTLRange" THEN {"", "out.stl"} ELSE {"out.stl"})
    /\ username \in (IF entry = "GenerateSTLRange" THEN {"", "user"} ELSE {"user"})
    /\ absorbed \in {{}} \cup (IF entry = "GenerateSTLRange"
                               THEN { {p} : p \in AbsorbablePositions(contributions) }
                               ELSE {})
    /\ level = INFO
    /\ pc = "start"
    /\ dimensions \in (IF entry = "generateModelGeometry" THEN DirectDimensions ELSE {NoDimensions})
    /\ maxContribution = (IF entry = "generateModelGeometry"
                          THEN findMaxContributionsAcrossYears(contributions) ELSE 0)
    /\ status = "running"
    /\ err = Nil
    /\ writes = 0
    /\ geometry = [returned |-> FALSE, err |-> Nil]
    /\ remaining = {}
    /\ cur = "none"
    /\ modelTriangles = <<>>
    /\ order = <<>>
    /\ closed = [n \in Producers |-> FALSE]
    /\ wg = 0
    /\ pcP = [n \in Producers |-> "idle"]
    /\ results = [n \in Producers |-> NoResult]
    /\ failed = {}

\* ------------------------------------------------- the pipeline, main line
\* The entry function returns e.
Return(e) ==
    /\ status' = "returned"
    /\ err' = e
    /\ pc' = "done"

\* Logger.SetLevel, called by main (main.go, line 156, with DEBUG) before the
\* pipeline runs.
SetLevel(l) ==
    /\ pc = "start"
    /\ level # l
    /\ level' = l
    /\ UNCHANGED <<boxVars, inputVars, mainVars, asmVars, prodVars>>

\* GenerateSTLRange, line 31: the opening debug message.
GenerateSTLRange ==
    /\ pc = "start"
    /\ entry = "GenerateSTLRange"
    /\ \E e \in Debug :
          IF e # Nil
          THEN Return(Wrap(e, "failed to log debug message"))
          ELSE pc' = "validate" /\ UNCHANGED <<status, err>>
    /\ UNCHANGED <<boxVars, inputVars, level, dimensions, maxContribution, writes,
                   geometry, asmVars, prodVars>>

\* GenerateSTLRange, line 35: contributions[0] panics on an empty slice (index out
\* of range) before validateInput is entered.
ValidateInput ==
    /\ pc = "validate"
    /\ IF Len(contributions) = 0
       THEN status' = "panicked" /\ pc' = "done" /\ UNCHANGED err
       ELSE LET e == validateInput(contributions[1], outputPath, username)
            IN  IF e # Nil
                THEN Return(Wrap(e, "input validation failed"))
                ELSE pc' = "dimensions" /\ UNCHANGED <<status, err>>
    /\ UNCHANGED <<boxVars, inputVars, level, dimensions, maxContribution, writes,
                   geometry, asmVars, prodVars>>

\* GenerateSTLRange, lines 39-45.
CalculateDimensions ==
    /\ pc = "dimensions"
    /\ LET r == calculateDimensions(Len(contributions))
       IN  IF r.err # Nil
           THEN /\ Return(Wrap(r.err, "failed to calculate dimensions"))
                /\ UNCHANGED <<dimensions, maxContribution>>
           ELSE /\ dimensions' = r.dims
                /\ maxContribution' = findMaxContributionsAcrossYears(contributions)
                /\ pc' = "geometry"
                /\ UNCHANGED <<status, err>>
    /\ UNCHANGED <<boxVars, inputVars, level, writes, geometry, asmVars, prodVars>>

\* generateModelGeometry called by a caller of its own.
CallGenerateModelGeometry ==
    /\ pc = "start"
    /\ entry = "generateModelGeometry"
    /\ pc' = "geometry"
    /\ UNCHANGED <<boxVars, inputVars, level, dimensions, maxContribution, status, err,
                   writes, geometry, asmVars, prodVars>>

\* generateModelGeometry, lines 154-178: the channels, wg.Add, the four go
\* statements, and the first key the range over the map yields (any of the four).
generateModelGeometry ==
    /\ pc = "geometry"
    /\ IF Len(contributions) = 0
       THEN /\ geometry' = [returned |-> TRUE,
                            err |-> New("VALIDATION", "contributions data cannot be empty", Nil)]
            /\ pc' = "returned"
            /\ UNCHANGED <<asmVars, prodVars>>
       ELSE /\ remaining' = Producers
            /\ \E n \in Producers : cur' = n
            /\ wg' = Cardinality(Producers)
            /\ pcP' = [n \in Producers |-> "running"]
            /\ pc' = "collect"
            /\ UNCHANGED <<geometry, modelTriangles, order, closed, results, failed>>
    /\ UNCHANGED <<boxVars, inputVars, level, dimensions, maxContribution, status, err, writes>>

\* Producer n sends result on its unbuffered channel: it gets past the send only
\* while the collecting loop receives from that channel (lines 177-183).  An error
\* in the result makes generateModelGeometry return at once; otherwise the
\* triangles are appended and the range yields its next key, if any is left.
Send(n, result) ==
    /\ pc = "collect"
    /\ cur = n
    /\ ~closed[n]
    /\ pcP[n] = "running"
    /\ pcP' = [pcP EXCEPT ![n] = "returning"]
    /\ results' = [results EXCEPT ![n] = result]
    /\ order' = Append(order, n)
    /\ IF result.err # Nil
       THEN /\ geometry' = [returned |-> TRUE,
                            err |-> Wrap(result.err, "failed to generate " \o n \o " geometry")]
            /\ pc' = "returned"
            /\ UNCHANGED <<remaining, cur, modelTriangles>>
       ELSE /\ modelTriangles' = modelTriangles \o result.triangles
            /\ remaining' = remaining \ {n}
            /\ IF remaining \ {n} = {} THEN cur' = "none"
               ELSE \E m \in remaining \ {n} : cur' = m
            /\ UNCHANGED <<geometry, pc>>
    /\ UNCHANGED <<boxVars, inputVars, level, dimensions, maxContribution, status, err,
                   writes, closed, wg>>

\* Mutant: the channels are closed without waiting for the producers.
WaitGroupWait_unjoined ==
    /\ pc = "collect"
    /\ cur = "none"
    /\ remaining = {}
    /\ pc' = "close"
    /\ UNCHANGED <<boxVars, inputVars, level, dimensions, maxContribution, status, err,
                   writes, geometry, asmVars, prodVars>>

\* wg.Wait(), line 186.
WaitGroupWait ==
    /\ pc = "collect"
    /\ cur = "none"
    /\ remaining = {}
    /\ wg = 0
    /\ pc' = "close"
    /\ UNCHANGED <<boxVars, inputVars, level, dimensions, maxContribution, status, err,
                   writes, geometry, asmVars, prodVars>>

\* Lines 187-191: the channels are closed and the triangles returned.
CloseChannels ==
    /\ pc = "close"
    /\ closed' = [n \in Producers |-> TRUE]
    /\ geometry' = [returned |-> TRUE, err |-> Nil]
    /\ pc' = "returned"
    /\ UNCHANGED <<boxVars, inputVars, level, dimensions, maxContribution, status, err,
                   writes, remaining, cur, modelTriangles, order, wg, prodVars>>

\* Mutant: the error of generateModelGeometry is dropped.
AfterGeometry_ignoreError ==
    /\ pc = "returned"
    /\ IF entry = "generateModelGeometry"
       THEN Return(geometry.err)
       ELSE \E e \in Info :
              IF e # Nil
              THEN Return(Wrap(e, "failed to log info message"))
              ELSE pc' = "logWriting" /\ UNCHANGED <<status, err>>
    /\ UNCHANGED <<boxVars, inputVars, level, dimensions, maxContribution, writes,
                   geometry, asmVars, prodVars>>

\* GenerateSTLRange, lines 47-54: the error of generateModelGeometry is returned
\* wrapped; otherwise the completion message is logged.
AfterGeometry ==
    /\ pc = "returned"
    /\ IF entry = "generateModelGeometry"
       THEN Return(geometry.err)
       ELSE IF geometry.err # Nil
       THEN Return(Wrap(geometry.err, "failed to generate geometry"))
       ELSE \E e \in Info :
              IF e # Nil
              THEN Return(Wrap(e, "failed to log info message"))
              ELSE pc' = "logWriting" /\ UNCHANGED <<status, err>>
    /\ UNCHANGED <<boxVars, inputVars, level, dimensions, maxContribution, writes,
                   geometry, asmVars, prodVars>>

\* GenerateSTLRange, lines 55-57.
LogWriting ==
    /\ pc = "logWriting"
    /\ \E e \in Debug :
          IF e # Nil
          THEN Return(Wrap(e, "failed to log debug message"))
          ELSE pc' = "write" /\ UNCHANGED <<status, err>>
    /\ UNCHANGED <<boxVars, inputVars, level, dimensions, maxContribution, writes,
                   geometry, asmVars, prodVars>>

\* GenerateSTLRange, lines 59-61: the file is written, or the write fails.
WriteSTLBinary ==
    /\ pc = "write"
    /\ writes' = writes + 1
    /\ \E e \in {Nil, Foreign("write")} :
          IF e # Nil
          THEN Return(Wrap(e, "failed to write STL file"))
          ELSE pc' = "logWritten" /\ UNCHANGED <<status, err>>
    /\ UNCHANGED <<boxVars, inputVars, level, dimensions, maxContribution, geometry,
                   asmVars, prodVars>>

\* GenerateSTLRange, lines 63-66.
LogWritten ==
    /\ pc = "logWritten"
    /\ \E e \in Info : Return(Wrap(e, "failed to log info message"))
    /\ UNCHANGED <<boxVars, inputVars, level, dimensions, maxContribution, writes,
                   geometry, asmVars, prodVars>>

\* ---------------------------------------------------- the four producers
\* What a producer whose geometry call failed sends: the empty list, with the
\* error of the Warning call that reported the failure, if that failed too.
\* Mutant: a nil slice is sent in place of the empty one.
Degraded_nil(logErr) == geometryResult(<<>>, TRUE, logErr)

Degraded(logErr) == geometryResult(<<>>, FALSE, logErr)

generateBase ==
    /\ pcP["base"] = "running" /\ cur = "base"
    /\ LET r == CreateCuboidBase(dimensions.innerWidth, dimensions.innerDepth)
       IN  IF r.err # Nil
           THEN /\ \E logErr \in Warning : Send("base", Degraded(logErr))
                /\ failed' = failed \cup {"base"}
           ELSE /\ Send("base", geometryResult(r.triangles, FALSE, Nil))
                /\ UNCHANGED failed

generateText ==
    /\ pcP["text"] = "running" /\ cur = "text"
    /\ \E ok \in BOOLEAN :
        LET r == Create3DText(ok, dimensions.innerWidth, BaseHeight)
        IN  IF r.err # Nil
            THEN /\ \E logErr \in Warning : Send("text", Degraded(logErr))
                 /\ failed' = failed \cup {"text"}
            ELSE /\ Send("text", geometryResult(r.triangles, FALSE, Nil))
                 /\ UNCHANGED failed

generateLogo ==
    /\ pcP["image"] = "running" /\ cur = "image"
    /\ \E ok \in BOOLEAN :
        LET r == GenerateImageGeometry(ok, dimensions.innerWidth, BaseHeight)
        IN  IF r.err # Nil
            THEN /\ \E logErr \in Warning : Send("image", Degraded(logErr))
                 /\ failed' = failed \cup {"image"}
            ELSE /\ Send("image", geometryResult(r.triangles, FALSE, Nil))
                 /\ UNCHANGED failed

\* Mutant: input year i is given its own position as year index.
YearGeometry_inputOrder(i) ==
    CreateContributionGeometry(contributions[i], i - 1, maxContribution)

\* The geometry of input year i (1-based) as generateColumnsForYearRange asks for it.
YearGeometry(i) ==
    CreateContributionGeometry(contributions[i], Len(contributions) - i, maxContribution)

FailedYears == { i \in 1..Len(contributions) : YearGeometry(i).err # Nil }

\* The loop of generateColumnsForYearRange from year i down to 1 with accumulator
\* acc; logErr[i] is what the Warning call about the failed year i returns.  A failed year is
\* skipped, unless its warning cannot be logged: then the function returns
\* (line 276).  Returns [completed, triangles].
RECURSIVE columnsLoop(_, _, _)
columnsLoop(i, acc, logErr) ==
    IF i < 1 THEN [completed |-> TRUE, triangles |-> acc]
    ELSE LET yearTriangles == YearGeometry(i)
         IN  IF yearTriangles.err # Nil
             THEN IF logErr[i] # Nil
                  THEN [completed |-> FALSE, triangles |-> acc]
                  ELSE columnsLoop(i - 1, acc, logErr)
             ELSE columnsLoop(i - 1, acc \o yearTriangles.triangles, logErr)

\* generateColumnsForYearRange when its loop completes: the send of line 283 (of a
\* nil slice if nothing was appended).
generateColumnsForYearRange ==
    /\ pcP["columns"] = "running" /\ cur = "columns"
    /\ \E logErr \in [FailedYears -> Warning] :
          LET r == columnsLoop(Len(contributions), <<>>, logErr)
          IN  /\ r.completed
              /\ Send("columns", geometryResult(r.triangles, r.triangles = <<>>, Nil))
    /\ failed' = failed \cup (IF FailedYears # {} THEN {"columns"} ELSE {})

\* generateColumnsForYearRange when the warning about a failed year cannot be
\* logged: the return of line 276, before anything is sent.
ColumnsReturnUnsent ==
    /\ pcP["columns"] = "running"
    /\ \E logErr \in [FailedYears -> Warning] :
          ~columnsLoop(Len(contributions), <<>>, logErr).completed
    /\ pcP' = [pcP EXCEPT !["columns"] = "returning"]
    /\ failed' = failed \cup {"columns"}
    /\ UNCHANGED <<boxVars, inputVars, level, mainVars, asmVars, results>>

\* defer wg.Done(): runs when the producer returns, after its send if it sent.
Done(n) ==
    /\ pcP[n] = "returning"
    /\ pcP' = [pcP EXCEPT ![n] = "exited"]
    /\ wg' = wg - 1
    /\ UNCHANGED <<boxVars, inputVars, level, mainVars, remaining, cur, modelTriangles,
                   order, closed, results, failed>>

Next ==
    \/ SetLevel(DEBUG)
    \/ GenerateSTLRange
    \/ ValidateInput
    \/ CalculateDimensions
    \/ CallGenerateModelGeometry
    \/ generateModelGeometry
    \/ WaitGroupWait
    \/ CloseChannels
    \/ AfterGeometry
    \/ LogWriting
    \/ WriteSTLBinary
    \/ LogWritten
    \/ generateBase
    \/ generateText
    \/ generateLogo
    \/ generateColumnsForYearRange
    \/ ColumnsReturnUnsent
    \/ \E n \in Producers : Done(n)

Spec == Init /\ [][Next]_vars

\* ------------------------------------------------ properties of the pipeline
\* Producer n's result has been received.
Received(n) == \E i \in 1..Len(order) : order[i] = n

\* How many results of producer n have been received.
Count(n) == Cardinality({ i \in 1..Len(order) : order[i] = n })

\* The triangles of the results of the producers named by ord, in that order.
RECURSIVE Concat(_)
Concat(ord) ==
    IF ord = <<>> THEN <<>>
    ELSE results[Head(ord)].triangles \o Concat(Tail(ord))

Required == {"base", "columns"}
Optional == {"text", "image"}

\* C1: GenerateSTLRange called with zero years returns a validation error (it does
\* not panic), before any dimension calculation or producer and without writing a
\* file.  (The return forced by a failed debug log line is left aside.)
C1_AsStated ==
    (/\ entry = "GenerateSTLRange"
     /\ Len(contributions) = 0
     /\ pc = "done"
     /\ err.Message # <<"failed to log debug message">>)
    => /\ status = "returned"
       /\ err.Type = "VALIDATION"
       /\ dimensions = NoDimensions
       /\ \A n \in Producers : pcP[n] = "idle"
       /\ writes = 0

\* C2: once CreateCuboidBase or a year's CreateContributionGeometry has failed,
\* generateModelGeometry returns a non-nil error, never a model.
C2_AsStated ==
    (geometry.returned /\ failed \cap Required # {}) => geometry.err # Nil

\* C3: the list generateModelGeometry returns is the concatenation of the four
\* results in the fixed order base, columns, text, image, whatever the order in
\* which the channels were visited.
C3_AsStated ==
    (geometry.returned /\ geometry.err = Nil)
    => modelTriangles = Concat(<<"base", "columns", "text", "image">>)

\* C4: a producer that has returned has sent exactly one result on its channel, on
\* every path.
C4_AsStated ==
    \A n \in Producers : pcP[n] \in {"returning", "exited"} => Count(n) = 1

\* C5 as stated: a text or emblem producer whose geometry call failed reports an
\* empty, non-nil list and no error.
C5_AsStated ==
    \A n \in Optional :
        (n \in failed /\ Received(n))
        => /\ results[n].triangles = <<>>
           /\ ~results[n].nilTriangles
           /\ results[n].err = Nil

\* C5, amended: a text or emblem producer whose geometry call failed reports an
\* empty, non-nil list; the result carries no error unless the Warning call that
\* reports the failure itself fails, and then it carries that error and
\* generateModelGeometry returns it wrapped.  When no received result carries an
\* error, generateModelGeometry succeeds with the triangles of all four results,
\* base and columns among them, in the order received.
C5_DegradedOptional ==
    /\ \A n \in Optional :
          (n \in failed /\ Received(n))
          => /\ results[n].triangles = <<>>
             /\ ~results[n].nilTriangles
             /\ results[n].err \in Warning
             /\ results[n].err # Nil
                => geometry = [returned |-> TRUE,
                               err |-> Wrap(results[n].err,
                                            "failed to generate " \o n \o " geometry")]
    /\ (/\ geometry.returned
        /\ Len(contributions) > 0
        /\ \A n \in Producers : Received(n) => results[n].err = Nil)
       => /\ geometry.err = Nil
          /\ \A n \in Producers : Received(n)
          /\ modelTriangles = Concat(order)

\* Both decorations failed, their warnings were logged, and the model was returned
\* with the base and the columns in it.
C5_Witness ==
    /\ geometry.returned
    /\ geometry.err = Nil
    /\ Optional \subseteq failed
    /\ failed \cap Required = {}
    /\ results["base"].triangles # <<>>
    /\ results["columns"].triangles # <<>>
    /\ modelTriangles = Concat(order)

\* C6: WriteSTLBinary is called at most once, and only after validateInput,
\* calculateDimensions and generateModelGeometry have returned without error; when
\* one of them fails, GenerateSTLRange returns the error without calling it.
C6_WriteAfterSuccess ==
    /\ writes <= 1
    /\ writes = 1
       => /\ entry = "GenerateSTLRange"
          /\ Len(contributions) > 0
          /\ validateInput(contributions[1], outputPath, username) = Nil
          /\ calculateDimensions(Len(contributions)).err = Nil
          /\ geometry = [returned |-> TRUE, err |-> Nil]
    /\ (/\ status = "returned"
        /\ err # Nil
        /\ Head(err.Message) \in {"input validation failed", "failed to calculate dimensions",
                                  "failed to generate geometry"})
       => writes = 0

\* The file was written and GenerateSTLRange returned nil.
C6_Witness ==
    /\ writes = 1
    /\ status = "returned"
    /\ err = Nil

\* C7: when generateModelGeometry returns successfully it has received exactly one
\* result from each producer and every producer has run its wg.Done; no channel is
\* closed before that, and no producer still has its send ahead of it on a closed
\* channel.
C7_JoinedBeforeReturn ==
    /\ (geometry.returned /\ geometry.err = Nil)
       => \A n \in Producers : Count(n) = 1 /\ pcP[n] = "exited"
    /\ (\E n \in Producers : closed[n]) => (wg = 0 /\ \A n \in Producers : pcP[n] = "exited")
    /\ \A n \in Producers : closed[n] => pcP[n] # "running"

\* generateModelGeometry returned a model after closing the four channels.
C7_Witness ==
    /\ geometry.returned
    /\ geometry.err = Nil
    /\ Len(order) = Cardinality(Producers)
    /\ \A n \in Producers : closed[n]

\* ---------------------------------- GenerateSTLRange up to the geometry, by size
\* Year counts and week counts around the ends of the range validateInput allows.
Sizes == (0..MaxYears) \cup ((GridSize - MaxYears)..(GridSize + MaxYears))

\* n years of the given number of weeks, the weeks without days.
SizedGrid(n, weeks) == [y \in 1..n |-> [w \in 1..weeks |-> <<>>]]

RangeInit ==
    /\ call = NoCall
    /\ ret = NoRet
    /\ entry = "GenerateSTLRange"
    /\ \E n \in Sizes, weeks \in Sizes : contributions = SizedGrid(n, weeks)
    /\ outputPath \in {"", "out.stl"}
    /\ username \in {"", "user"}
    /\ absorbed = {}
    /\ level = INFO
    /\ pc = "start"
    /\ dimensions = NoDimensions
    /\ maxContribution = 0
    /\ status = "running"
    /\ err = Nil
    /\ writes = 0
    /\ geometry = [returned |-> FALSE, err |-> Nil]
    /\ remaining = {}
    /\ cur = "none"
    /\ modelTriangles = <<>>
    /\ order = <<>>
    /\ closed = [n \in Producers |-> FALSE]
    /\ wg = 0
    /\ pcP = [n \in Producers |-> "idle"]
    /\ results = [n \in Producers |-> NoResult]
    /\ failed = {}

\* GenerateSTLRange from its entry to the call of generateModelGeometry.
RangeNext ==
    \/ SetLevel(DEBUG)
    \/ GenerateSTLRange
    \/ ValidateInput
    \/ CalculateDimensions

RangeSpec == RangeInit /\ [][RangeNext]_vars

\* C11: GenerateSTLRange returns a validation error whenever the input has more
\* than GridSize years, whatever the weeks of each year; an input of at most
\* GridSize non-empty years (with a path and a user name) is not rejected.
C11_AsStated ==
    (/\ entry = "GenerateSTLRange"
     /\ pc \in {"geometry", "done"}
     /\ err.Message # <<"failed to log debug message">>)
    => /\ Len(contributions) > GridSize
          => (status = "returned" /\ err.Type = "VALIDATION")
       /\ (/\ Len(contributions) \in 1..GridSize
           /\ \A y \in 1..Len(contributions) : Len(contributions[y]) > 0
           /\ outputPath # ""
           /\ username # "")
          => pc = "geometry"

\* ------------------------------- the lattice functions, called directly
\* A year of the given weeks and days per week, count = (index sum) mod (MaxCount + 1).
WeekGrid(weeks, days) ==
    [w \in 1..weeks |-> [d \in 1..days |-> [ContributionCount |-> (w + d) % (MaxCount + 1)]]]

\* Years with the short weeks of the tests and with whole weeks.
YearGrids == { WeekGrid(weeks, days) : weeks \in 1..MaxWeeks, days \in {MaxDays, DaysPerWeek} }

\* Counts from none to more than any maximum; maxima from the negative on.
NormCounts == 0..(MaxCount * DaysPerWeek)
NormMaxCounts == (0 - 1)..(MaxCount * DaysPerWeek)

GeometryInit ==
    /\ call = NoCall
    /\ ret = NoRet
    /\ PipelineIdle

CallNormalizeContribution ==
    /\ \E count \in NormCounts, maxCount \in NormMaxCounts :
          /\ call' = [op |-> "NormalizeContribution", count |-> count, maxCount |-> maxCount]
          /\ ret' = [height |-> NormalizeContribution(count, maxCount)]
    /\ UNCHANGED pipelineVars

CallCreateContributionGeometry ==
    /\ \E year \in YearGrids, yearIndex \in 0..MaxYears, maxContrib \in 0..MaxCount :
          /\ call' = [op |-> "CreateContributionGeometry", year |-> year,
                      yearIndex |-> yearIndex, maxContrib |-> maxContrib]
          /\ ret' = CreateContributionGeometry(year, yearIndex, maxContrib)
    /\ UNCHANGED pipelineVars

CallCalculateDimensions ==
    /\ \E yearCount \in (0 - MaxYears)..(MaxYears + 1) :
          /\ call' = [op |-> "calculateDimensions", yearCount |-> yearCount]
          /\ ret' = calculateDimensions(yearCount)
    /\ UNCHANGED pipelineVars

GeometryNext ==
    \/ CallNormalizeContribution
    \/ CallCreateContributionGeometry
    \/ CallCalculateDimensions

GeometrySpec == GeometryInit /\ [][GeometryNext]_vars

\* The active days of a year in the order the loops visit them.
RECURSIVE ActiveInOrder(_, _, _)
ActiveInOrder(year, w, d) ==
    IF w > Len(year) THEN <<>>
    ELSE IF d > Len(year[w]) THEN ActiveInOrder(year, w + 1, 1)
    ELSE (IF year[w][d].ContributionCount > 0 THEN << <<w, d>> >> ELSE <<>>)
         \o ActiveInOrder(year, w, d + 1)

\* The vertices of the k-th run of 12 triangles of a list.
BlockVertices(triangles, k) ==
    UNION { TriVertices(triangles[i]) : i \in (12 * (k - 1) + 1)..(12 * k) }

WholeWeeks(year) == \A w \in 1..Len(year) : Len(year[w]) = DaysPerWeek

\* The Y coordinates of the vertices of a triangle list.
YsOf(triangles) ==
    { v.Y : v \in UNION { TriVertices(triangles[i]) : i \in 1..Len(triangles) } }

\* C13: with weeks of exactly 7 days, a year of larger index lies strictly farther
\* along Y (each column of the same grid has a strictly larger Y), and no column
\* footprint of year index i overlaps one of year index j > i: the largest Y
\* reached by year i is at most the smallest Y of year j.
C13_YearsApart ==
    [][(/\ call.op = "CreateContributionGeometry"
        /\ call'.op = "CreateContributionGeometry"
        /\ WholeWeeks(call.year)
        /\ WholeWeeks(call'.year)
        /\ call.yearIndex < call'.yearIndex)
       => /\ \A a \in YsOf(ret.triangles), b \in YsOf(ret'.triangles) : a <= b
          /\ (call.year = call'.year /\ call.maxContrib = call'.maxContrib)
             => /\ Len(ret'.triangles) = Len(ret.triangles)
                /\ \A k \in 1..Len(ret.triangles) :
                      ret'.triangles[k].V1.Y > ret.triangles[k].V1.Y]_vars

\* A year of whole weeks built at the largest year index.
C13_Witness ==
    /\ call.op = "CreateContributionGeometry"
    /\ WholeWeeks(call.year)
    /\ call.yearIndex = MaxYears
    /\ ret.triangles # <<>>

\* The triangles of input years i down to 1, year k built at index len - k.
RECURSIVE YearsFromLast(_)
YearsFromLast(i) ==
    IF i < 1 THEN <<>>
    ELSE CreateContributionGeometry(contributions[i], Len(contributions) - i,
                                     maxContribution).triangles
         \o YearsFromLast(i - 1)

\* C14: generateColumnsForYearRange builds the last input year at year index 0 and
\* input position i (0-based) at index len-1-i, most recent year first in its
\* result.  (Stated where the producer has sent and not yet run wg.Done: the
\* result does not change afterwards.)
C14_ReverseIndex ==
    (pcP["columns"] = "returning" /\ Received("columns") /\ absorbed = {})
    => results["columns"].triangles = YearsFromLast(Len(contributions))

\* Columns of MaxYears years were received.
C14_Witness ==
    /\ pcP["columns"] = "returning"
    /\ Received("columns")
    /\ absorbed = {}
    /\ Len(contributions) = MaxYears
    /\ \A y \in 1..Len(contributions) : Len(contributions[y]) > 0
    /\ results["columns"].triangles # <<>>

\* C15: NormalizeContribution returns 0 for a count of 0 whatever the maximum,
\* MinHeight for a count other than 0 when the maximum is 0 or less, and exactly
\* MaxHeight when the count equals a positive maximum.
C15_NormalizeEnds ==
    call.op = "NormalizeContribution" =>
        /\ call.count = 0 => ret.height = 0
        /\ (call.count # 0 /\ call.maxCount <= 0) => ret.height = MinHeight
        /\ (call.count = call.maxCount /\ call.maxCount > 0) => ret.height = MaxHeight

\* The largest count against itself as maximum.
C15_Witness ==
    /\ call.op = "NormalizeContribution"
    /\ call.count = MaxCount * DaysPerWeek
    /\ call.maxCount = call.count
    /\ ret.height = MaxHeight

\* C16: for a fixed maximum NormalizeContribution does not decrease as the count
\* grows from 0 on, the step from count 0 (height 0) to count 1 (at least
\* MinHeight) included.
C16_Monotone ==
    [][(/\ call.op = "NormalizeContribution"
        /\ call'.op = "NormalizeContribution"
        /\ call.maxCount = call'.maxCount
        /\ 0 <= call.count
        /\ call.count <= call'.count)
       => /\ ret.height <= ret'.height
          /\ (call.count = 0 /\ call'.count = 1)
             => (ret.height = 0 /\ ret'.height >= MinHeight)]_vars

\* A count above the maximum, with a height above MaxHeight.
C16_Witness ==
    /\ call.op = "NormalizeContribution"
    /\ call.maxCount > 0
    /\ call.count > call.maxCount
    /\ ret.height > MaxHeight

\* C17: calculateDimensions fails with a validation error for every year count of
\* 0 or less, and for every count of 1 or more returns innerWidth = GridSize *
\* CellSize + 2 * CellSize and innerDepth = 7 * yearCount * CellSize + 2 *
\* CellSize, both positive.
C17_Dimensions ==
    call.op = "calculateDimensions" =>
        IF call.yearCount <= 0
        THEN ret.err.Type = "VALIDATION" /\ ret.dims = NoDimensions
        ELSE /\ ret.err = Nil
             /\ ret.dims.innerWidth = GridSize * CellSize + 2 * CellSize
             /\ ret.dims.innerDepth = 7 * call.yearCount * CellSize + 2 * CellSize
             /\ ret.dims.innerWidth > 0
             /\ ret.dims.innerDepth > 0

\* Dimensions of more than one year.
C17_Witness ==
    /\ call.op = "calculateDimensions"
    /\ call.yearCount = MaxYears + 1
    /\ ret.err = Nil
    /\ ret.dims # NoDimensions

\* ---------------------------------------------------- the binary serializer
\* WriteSTLBinary is called by GenerateSTLRange (generator.go, line 59) but its file
\* is not among the sources; its layout is the one of section 4.6 of the
\* specification: an 80-byte header, the triangle count as 4 little-endian bytes,
\* and per triangle the normal and the three vertices as little-endian IEEE-754
\* single precision values followed by a 2-byte attribute of zero.
RECURSIVE Pow2(_)
Pow2(k) == IF k <= 0 THEN 1 ELSE 2 * Pow2(k - 1)

\* The position of the highest set bit of m > 0.
RECURSIVE Log2(_)
Log2(m) == IF m <= 1 THEN 0 ELSE 1 + Log2(m \div 2)

\* float32(h/2) as its 4 bytes, lowest first; h is a length in half units.
Float32Bytes(h) ==
    IF h = 0 THEN <<0, 0, 0, 0>>
    ELSE LET m == Abs(h)
             sign == IF h < 0 THEN 1 ELSE 0
             exponent == Log2(m) + 126
             mantissa == m * Pow2(23 - Log2(m)) - Pow2(23)
         IN  << mantissa % 256,
                (mantissa \div 256) % 256,
                (exponent % 2) * 128 + mantissa \div 65536,
                sign * 128 + exponent \div 2 >>

\* Point3D.ToFloat32 and its 12 bytes; unit tells whether the components are
\* lengths in half units (1) or plain numbers, as those of a normal (2).
PointBytes(p, unit) ==
    Float32Bytes(unit * p.X) \o Float32Bytes(unit * p.Y) \o Float32Bytes(unit * p.Z)

\* Triangle.ToFloat32 and its 50-byte record.
TriangleBytes(t) ==
    PointBytes(t.Normal, 2) \o PointBytes(t.V1, 1) \o PointBytes(t.V2, 1)
        \o PointBytes(t.V3, 1) \o <<0, 0>>

\* The triangle count as an unsigned 32-bit integer, lowest byte first.
Uint32Bytes(n) ==
    << n % 256, (n \div 256) % 256, (n \div 65536) % 256, (n \div 16777216) % 256 >>

RECURSIVE RecordsFrom(_, _)
RecordsFrom(triangles, k) ==
    IF k > Len(triangles) THEN <<>>
    ELSE TriangleBytes(triangles[k]) \o RecordsFrom(triangles, k + 1)

\* Mutant: the attribute field is left out of every record but the first.
WriteSTLBinaryBytes_noAttribute(triangles) ==
    [i \in 1..80 |-> 0] \o Uint32Bytes(Len(triangles))
        \o (IF triangles = <<>> THEN <<>>
            ELSE TriangleBytes(triangles[1])
                 \o SubSeq(RecordsFrom(triangles, 2), 1,
                           Len(RecordsFrom(triangles, 2)) - 2 * (Len(triangles) - 1)))

\* The bytes WriteSTLBinary writes for a triangle list.
WriteSTLBinaryBytes(triangles) ==
    [i \in 1..80 |-> 0] \o Uint32Bytes(Len(triangles)) \o RecordsFrom(triangles, 1)

\* The triangles meshes are made of: those of one box off the origin.
MeshTriangles ==
    LET box == createBox(0 - 1, 0, 1, 1, 2, 3).triangles
    IN  { box[i] : i \in 1..Len(box) }

\* The triangle lists of up to MaxMesh triangles.
Meshes == UNION { [1..n -> MeshTriangles] : n \in 0..MaxMesh }

\* One call of WriteSTLBinary, with its triangle list drawn.
SerializerInit ==
    /\ \E triangles \in Meshes :
          call = [op |-> "WriteSTLBinary", triangles |-> triangles]
    /\ ret = NoRet
    /\ PipelineIdle

CallWriteSTLBinary ==
    /\ call.op = "WriteSTLBinary"
    /\ ret = NoRet
    /\ ret' = [bytes |-> WriteSTLBinaryBytes(call.triangles), err |-> Nil]
    /\ UNCHANGED <<call, pipelineVars>>

SerializerNext == CallWriteSTLBinary

SerializerSpec == SerializerInit /\ [][SerializerNext]_vars

\* Twice the value of the single precision number stored in b[at+1..at+4], read
\* from its sign, exponent and mantissa bits.
HalfUnitsAt(b, at) ==
    LET sign == b[at + 4] \div 128
        exponent == (b[at + 4] % 128) * 2 + b[at + 3] \div 128
        mantissa == (b[at + 3] % 128) * 65536 + b[at + 2] * 256 + b[at + 1]
        magnitude == (Pow2(23) + mantissa) \div Pow2(149 - exponent)
    IN  IF exponent = 0 /\ mantissa = 0 THEN 0
        ELSE IF sign = 1 THEN 0 - magnitude ELSE magnitude

\* The point stored in the 12 bytes after position at, in half units.
PointAt(b, at) == Point3D(HalfUnitsAt(b, at), HalfUnitsAt(b, at + 4), HalfUnitsAt(b, at + 8))

\* C18: WriteSTLBinary of N triangles writes 84 + 50*N bytes: 80 header bytes, N as
\* 4 little-endian bytes, then for each triangle in input order 12 single
\* precision values (normal, three vertices) and a 2-byte attribute of zero.
C18_Layout ==
    (call.op = "WriteSTLBinary" /\ ret # NoRet) =>
        LET n == Len(call.triangles)
            b == ret.bytes
        IN  /\ Len(b) = 84 + 50 * n
            /\ b[81] + 256 * b[82] + 65536 * b[83] + 16777216 * b[84] = n
            /\ \A k \in 1..n :
                  LET at == 84 + 50 * (k - 1)
                      t == call.triangles[k]
                  IN  /\ PointAt(b, at) = Point3D(2 * t.Normal.X, 2 * t.Normal.Y, 2 * t.Normal.Z)
                      /\ PointAt(b, at + 12) = t.V1
                      /\ PointAt(b, at + 24) = t.V2
                      /\ PointAt(b, at + 36) = t.V3
                      /\ b[at + 49] = 0
                      /\ b[at + 50] = 0

\* A mesh of MaxMesh different triangles was written.
C18_Witness ==
    /\ call.op = "WriteSTLBinary"
    /\ ret # NoRet
    /\ Len(call.triangles) = MaxMesh
    /\ call.triangles[1] # call.triangles[MaxMesh]
    /\ Len(ret.bytes) > 84

\* --------------------------------------------------------- the output name
\* Strings are sequences of one-character strings.
Digit == [d \in 0..9 |-> <<"0", "1", "2", "3", "4", "5", "6", "7", "8", "9">>[d + 1]]

\* Go's remainder, which takes the sign of the dividend.
Rem(a, b) == IF a >= 0 THEN a % b ELSE 0 - ((0 - a) % b)

\* The decimal digits of n >= 0.
RECURSIVE Digits(_)
Digits(n) == IF n < 10 THEN <<Digit[n]>> ELSE Digits(n \div 10) \o <<Digit[n % 10]>>

\* fmt.Sprintf("%d", n) for width = 0 and fmt.Sprintf("%02d", n) for width = 2:
\* the sign, then zeros up to the width, then the digits.
SprintfD(width, n) ==
    LET sign == IF n < 0 THEN <<"-">> ELSE <<>>
        digits == Digits(Abs(n))
        short == width - Len(sign) - Len(digits)
        pad == IF short > 0 THEN short ELSE 0
    IN  sign \o [i \in 1..pad |-> "0"] \o digits

formatYearRange(startYear, endYear) ==
    IF startYear = endYear THEN SprintfD(0, startYear)
    ELSE SprintfD(2, Rem(startYear, 100)) \o <<"-">> \o SprintfD(2, Rem(endYear, 100))

\* unicode.ToLower on the characters used here.
LowerChar(c) ==
    CASE c = "S" -> "s"
      [] c = "T" -> "t"
      [] c = "L" -> "l"
      [] c = "A" -> "a"
      [] OTHER -> c

ToLower(str) == [i \in 1..Len(str) |-> LowerChar(str[i])]

HasSuffix(str, suffix) ==
    /\ Len(str) >= Len(suffix)
    /\ SubSeq(str, Len(str) - Len(suffix) + 1, Len(str)) = suffix

\* outputFileFormat applied to the user and the year string.
outputFileFormat(user, yearStr) ==
    user \o <<"-">> \o yearStr \o <<"-", "g", "i", "t", "h", "u", "b", "-", "s", "k", "y", "l", "i", "n", "e", ".", "s", "t", "l">>

\* Mutant: the suffix is compared as written, not in lower case.
generateOutputFilename_caseSensitive(output, user, startYear, endYear) ==
    IF output # <<>>
    THEN IF ~HasSuffix(output, <<".", "s", "t", "l">>) THEN output \o <<".", "s", "t", "l">>
         ELSE output
    ELSE outputFileFormat(user, formatYearRange(startYear, endYear))

\* output is the package variable the --output flag sets.
generateOutputFilename(output, user, startYear, endYear) ==
    IF output # <<>>
    THEN IF ~HasSuffix(ToLower(output), <<".", "s", "t", "l">>) THEN output \o <<".", "s", "t", "l">>
         ELSE output
    ELSE outputFileFormat(user, formatYearRange(startYear, endYear))

\* The characters of the names tried: those of the suffix, in both cases, and
\* two others.
NameChars == {".", "s", "t", "l", "S", "L", "a"}

\* The values of the --output flag: every name of up to MaxName characters.
Outputs == UNION { [1..n -> NameChars] : n \in 0..MaxName }

Users == { <<"u">>, <<"a", ".", "S", "T", "L">> }

\* Years whose last two digits need padding or not, in two centuries.
FilenameYears == {2008, 2024, 2105}

\* One call of generateOutputFilename, with its arguments and the flag drawn.
FilenameInit ==
    /\ \E o \in Outputs, u \in Users, s \in FilenameYears, e \in FilenameYears :
          call = [op |-> "generateOutputFilename", output |-> o, user |-> u,
                  startYear |-> s, endYear |-> e]
    /\ ret = NoRet
    /\ PipelineIdle

CallGenerateOutputFilename ==
    /\ call.op = "generateOutputFilename"
    /\ ret = NoRet
    /\ ret' = [name |-> generateOutputFilename(call.output, call.user,
                                               call.startYear, call.endYear)]
    /\ UNCHANGED <<call, pipelineVars>>

FilenameNext == CallGenerateOutputFilename

FilenameSpec == FilenameInit /\ [][FilenameNext]_vars

\* The last two decimal digits of a year, and the four digits of a year of
\* four digits.
TwoDigits(n) == <<Digit[(n \div 10) % 10], Digit[n % 10]>>

FourDigits(n) == <<Digit[(n \div 1000) % 10], Digit[(n \div 100) % 10]>> \o TwoDigits(n)

\* C19: without --output the name is <user>-<YYYY>-github-skyline.stl for one
\* year and <user>-<startYY>-<endYY>-github-skyline.stl otherwise; an --output
\* name that ends in .stl in any case is returned as it is, any other gets .stl
\* appended; the result ends in .stl (in any case) and is a fixed point.
C19_OutputName ==
    (call.op = "generateOutputFilename" /\ ret # NoRet) =>
        /\ (call.output = <<>> /\ call.startYear = call.endYear) =>
              ret.name = call.user \o <<"-">> \o FourDigits(call.startYear) \o <<"-", "g", "i", "t", "h", "u", "b", "-", "s", "k", "y", "l", "i", "n", "e", ".", "s", "t", "l">>
        /\ (call.output = <<>> /\ call.startYear # call.endYear) =>
              ret.name = call.user \o <<"-">> \o TwoDigits(call.startYear) \o <<"-">>
                            \o TwoDigits(call.endYear) \o <<"-", "g", "i", "t", "h", "u", "b", "-", "s", "k", "y", "l", "i", "n", "e", ".", "s", "t", "l">>
        /\ (call.output # <<>> /\ HasSuffix(ToLower(call.output), <<".", "s", "t", "l">>)) =>
              ret.name = call.output
        /\ (call.output # <<>> /\ ~HasSuffix(ToLower(call.output), <<".", "s", "t", "l">>)) =>
              ret.name = call.output \o <<".", "s", "t", "l">>
        /\ HasSuffix(ToLower(ret.name), <<".", "s", "t", "l">>)
        /\ generateOutputFilename(ret.name, call.user, call.startYear, call.endYear) = ret.name

\* An --output name ending in .stl written in another case was returned.
C19_Witness ==
    /\ call.op = "generateOutputFilename"
    /\ ret # NoRet
    /\ call.output # <<>>
    /\ HasSuffix(ToLower(call.output), <<".", "s", "t", "l">>)
    /\ ~HasSuffix(call.output, <<".", "s", "t", "l">>)
    /\ ret.name = call.output

\* ----------------------------------------------------------- the year range
DigitChars == { Digit[d] : d \in 0..9 }

\* The value of a digit character.
DigitValue(c) == CHOOSE d \in 0..9 : Digit[d] = c

\* The value of a string of digits, read from the left.
RECURSIVE DigitsValue(_, _)
DigitsValue(str, acc) ==
    IF str = <<>> THEN acc ELSE DigitsValue(Tail(str), 10 * acc + DigitValue(Head(str)))

\* strconv.Atoi: an optional sign, then one digit or more and nothing else.
Atoi(str) ==
    LET signed == str # <<>> /\ Head(str) \in {"+", "-"}
        digits == IF signed THEN Tail(str) ELSE str
    IN  IF digits = <<>> \/ \E i \in 1..Len(digits) : digits[i] \notin DigitChars
        THEN [n |-> 0, err |-> Foreign("strconv.Atoi: invalid syntax")]
        ELSE [n |-> IF signed /\ Head(str) = "-" THEN 0 - DigitsValue(digits, 0)
                    ELSE DigitsValue(digits, 0),
              err |-> Nil]

\* strings.Split(str, "-"): the pieces between the separators, empty ones included.
RECURSIVE Split(_, _, _)
Split(str, piece, parts) ==
    IF str = <<>> THEN Append(parts, piece)
    ELSE IF Head(str) = "-" THEN Split(Tail(str), <<>>, Append(parts, piece))
    ELSE Split(Tail(str), Append(piece, Head(str)), parts)

\* strings.Contains(str, "-").
Contains(str) == \E i \in 1..Len(str) : str[i] = "-"

\* Mutant: a start year after the end year is let through.
validateYearRange_anyOrder(startYear, endYear, currentYear) ==
    IF startYear < githubLaunchYear \/ endYear > currentYear
    THEN Foreign("years must be between githubLaunchYear and currentYear")
    ELSE Nil

\* currentYear is what time.Now().Year() returns.
validateYearRange(startYear, endYear, currentYear) ==
    IF startYear < githubLaunchYear \/ endYear > currentYear
    THEN Foreign("years must be between githubLaunchYear and currentYear")
    ELSE IF startYear > endYear
    THEN Foreign("start year cannot be after end year")
    ELSE Nil

parseYearRange(yearRange, currentYear) ==
    IF Contains(yearRange)
    THEN LET parts == Split(yearRange, <<>>, <<>>)
         IN  IF Len(parts) # 2
             THEN [startYear |-> 0, endYear |-> 0, err |-> Foreign("invalid year range format")]
             ELSE IF Atoi(parts[1]).err # Nil
             THEN [startYear |-> 0, endYear |-> 0, err |-> Atoi(parts[1]).err]
             ELSE IF Atoi(parts[2]).err # Nil
             THEN [startYear |-> 0, endYear |-> 0, err |-> Atoi(parts[2]).err]
             ELSE [startYear |-> Atoi(parts[1]).n, endYear |-> Atoi(parts[2]).n,
                   err |-> validateYearRange(Atoi(parts[1]).n, Atoi(parts[2]).n, currentYear)]
    ELSE IF Atoi(yearRange).err # Nil
         THEN [startYear |-> 0, endYear |-> 0, err |-> Atoi(yearRange).err]
         ELSE [startYear |-> Atoi(yearRange).n, endYear |-> Atoi(yearRange).n,
               err |-> validateYearRange(Atoi(yearRange).n, Atoi(yearRange).n, currentYear)]

\* The years the clock may show.
CurrentYears == {2025, 2026}

\* The years written in the --year values: around the launch year and around
\* the current one.
FlagYears == {githubLaunchYear - 1, githubLaunchYear} \cup CurrentYears \cup {2027}

\* The pieces the --year values are made of: years, and pieces that are no
\* plain number.
FlagParts ==
    { SprintfD(0, y) : y \in FlagYears }
        \cup { <<>>, <<"a">>, <<"2", "0", "a", "4">>, <<"+">>, <<"+", "2", "0", "2", "5">> }

RECURSIVE Join(_)
Join(parts) ==
    IF Len(parts) = 1 THEN parts[1] ELSE parts[1] \o <<"-">> \o Join(Tail(parts))

\* The values of the --year flag: up to MaxParts pieces with '-' between them.
YearRanges == { Join(parts) : parts \in UNION { [1..n -> FlagParts] : n \in 1..MaxParts } }

\* The command with its --year value and the year of its clock.
YearRangeInit ==
    /\ \E y \in YearRanges, c \in CurrentYears :
          call = [op |-> "parseYearRange", yearRange |-> y, currentYear |-> c]
    /\ ret = NoRet
    /\ PipelineIdle

\* RunE from the call of parseYearRange on: generateSkyline is called with the
\* parsed years unless parseYearRange failed.
CallParseYearRange ==
    /\ call.op = "parseYearRange"
    /\ ret = NoRet
    /\ LET parsed == parseYearRange(call.yearRange, call.currentYear)
       IN  ret' = [startYear |-> parsed.startYear, endYear |-> parsed.endYear,
                   err |-> parsed.err,
                   generateSkyline |-> IF parsed.err # Nil THEN <<>>
                                       ELSE <<parsed.startYear, parsed.endYear>>]
    /\ UNCHANGED <<call, pipelineVars>>

YearRangeNext == CallParseYearRange

YearRangeSpec == YearRangeInit /\ [][YearRangeNext]_vars

\* The number of '-' in a string.
RECURSIVE Dashes(_)
Dashes(str) ==
    IF str = <<>> THEN 0 ELSE (IF Head(str) = "-" THEN 1 ELSE 0) + Dashes(Tail(str))

\* A piece that is no number: not an optional '+' followed by digits only.
NonNumeric(part) ==
    LET digits == IF part # <<>> /\ part[1] = "+" THEN Tail(part) ELSE part
    IN  digits = <<>> \/ \E i \in 1..Len(digits) : digits[i] \notin DigitChars

\* The maximal runs of characters other than '-' in str, as index pairs.
Pieces(str) ==
    { <<a, b>> \in (1..(Len(str) + 1)) \X (0..Len(str)) :
         /\ a <= b + 1
         /\ \A i \in a..b : str[i] # "-"
         /\ (a = 1 \/ str[a - 1] = "-")
         /\ (b = Len(str) \/ str[b + 1] = "-") }

InRange(startYear, endYear, currentYear) ==
    /\ githubLaunchYear <= startYear
    /\ startYear <= endYear
    /\ endYear <= currentYear

\* C20: parseYearRange succeeds only with 2008 <= startYear <= endYear <= the
\* current year; "Y" gives (Y, Y) and "A-B" gives (A, B); a string with more
\* than one '-' or with a piece that is no number is rejected; generateSkyline
\* runs only with the years of a successful parse.
C20_YearRange ==
    (call.op = "parseYearRange" /\ ret # NoRet) =>
        /\ ret.err = Nil => InRange(ret.startYear, ret.endYear, call.currentYear)
        /\ \A y \in FlagYears :
              call.yearRange = FourDigits(y) =>
                  /\ InRange(y, y, call.currentYear) =>
                        ret.err = Nil /\ ret.startYear = y /\ ret.endYear = y
                  /\ ~InRange(y, y, call.currentYear) => ret.err # Nil
        /\ \A a \in FlagYears, b \in FlagYears :
              call.yearRange = FourDigits(a) \o <<"-">> \o FourDigits(b) =>
                  /\ InRange(a, b, call.currentYear) =>
                        ret.err = Nil /\ ret.startYear = a /\ ret.endYear = b
                  /\ ~InRange(a, b, call.currentYear) => ret.err # Nil
        /\ Dashes(call.yearRange) > 1 => ret.err # Nil
        /\ (\E p \in Pieces(call.yearRange) :
               NonNumeric(SubSeq(call.yearRange, p[1], p[2]))) => ret.err # Nil
        /\ ret.generateSkyline # <<>> =>
              /\ ret.err = Nil
              /\ ret.generateSkyline = <<ret.startYear, ret.endYear>>
              /\ InRange(ret.generateSkyline[1], ret.generateSkyline[2], call.currentYear)

\* A range of two different years was accepted and generateSkyline ran with it.
C20_Witness ==
    /\ call.op = "parseYearRange"
    /\ ret # NoRet
    /\ Dashes(call.yearRange) = 1
    /\ ret.err = Nil
    /\ ret.startYear < ret.endYear
    /\ ret.generateSkyline = <<ret.startYear, ret.endYear>>

\* ------------------------------------------------ producers left behind
\* C21: once generateModelGeometry has returned, with a model or with an error,
\* no producer is still short of its send: a producer in that position stays
\* there, as the collecting loop is the only receiver of its channel.
C21_AsStated ==
    geometry.returned => \A n \in Producers : pcP[n] # "running"

\* ------------------------------------------------- quads and normals alone
\* The points the quads and normals are tried on.
QuadPoints == { Point3D(x, y, z) : x \in 0..MaxCoord, y \in 0..MaxCoord, z \in 0..1 }

\* p with one component replaced by a value that is no number.
Spoiled(p) ==
    { [p EXCEPT ![f] = bad] : f \in {"X", "Y", "Z"}, bad \in {NaN, PosInf, NegInf} }

\* The argument lists of calculateNormal: lattice points, at most one of them
\* with a component that is no number.
NormalCalls ==
    { [op |-> "calculateNormal", p1 |-> a, p2 |-> b, p3 |-> c] :
        a \in QuadPoints, b \in QuadPoints, c \in QuadPoints }
    \cup { [op |-> "calculateNormal", p1 |-> a, p2 |-> b, p3 |-> c] :
        a \in UNION { Spoiled(p) : p \in QuadPoints }, b \in QuadPoints, c \in {Point3D(0, 1, 0)} }
    \cup { [op |-> "calculateNormal", p1 |-> a, p2 |-> b, p3 |-> c] :
        a \in {Point3D(0, 0, 0)}, b \in UNION { Spoiled(p) : p \in QuadPoints }, c \in QuadPoints }
    \cup { [op |-> "calculateNormal", p1 |-> a, p2 |-> b, p3 |-> c] :
        a \in QuadPoints, b \in {Point3D(1, 0, 0)}, c \in UNION { Spoiled(p) : p \in QuadPoints } }

QuadCalls ==
    { [op |-> "CreateQuad", v1 |-> a, v2 |-> b, v3 |-> c, v4 |-> d] :
        a \in QuadPoints, b \in QuadPoints, c \in QuadPoints, d \in QuadPoints }

VectorInit ==
    /\ call \in NormalCalls \cup QuadCalls
    /\ ret = NoRet
    /\ PipelineIdle

CallCalculateNormal ==
    /\ ret = NoRet
    /\ call.op = "calculateNormal"
    /\ ret' = calculateNormal(call.p1, call.p2, call.p3)
    /\ UNCHANGED <<call, pipelineVars>>

CallCreateQuad ==
    /\ ret = NoRet
    /\ call.op = "CreateQuad"
    /\ ret' = CreateQuad(call.v1, call.v2, call.v3, call.v4)
    /\ UNCHANGED <<call, pipelineVars>>

VectorNext == CallCalculateNormal \/ CallCreateQuad

VectorSpec == VectorInit /\ [][VectorNext]_vars

\* Twice the area vector of the triangle (a, b, c); zero exactly when the
\* triangle has no area.
AreaVector(a, b, c) ==
    Point3D((b.Y - a.Y) * (c.Z - a.Z) - (b.Z - a.Z) * (c.Y - a.Y),
            (b.Z - a.Z) * (c.X - a.X) - (b.X - a.X) * (c.Z - a.Z),
            (b.X - a.X) * (c.Y - a.Y) - (b.Y - a.Y) * (c.X - a.X))

ZeroArea(a, b, c) == AreaVector(a, b, c) = Point3D(0, 0, 0)

\* C22: CreateQuad fails when (v1,v2,v3) or (v1,v3,v4) has no area; on success it
\* returns exactly those two triangles, both with the normal of (v1,v2,v3), and
\* none of them without area.
C22_AsStated ==
    (call.op = "CreateQuad" /\ ret # NoRet) =>
        /\ (ZeroArea(call.v1, call.v2, call.v3) \/ ZeroArea(call.v1, call.v3, call.v4))
              => ret.err # Nil
        /\ ret.err = Nil =>
              /\ ret.triangles =
                    << Triangle(calculateNormal(call.v1, call.v2, call.v3).normal,
                                call.v1, call.v2, call.v3),
                       Triangle(calculateNormal(call.v1, call.v2, call.v3).normal,
                                call.v1, call.v3, call.v4) >>
              /\ \A i \in 1..2 :
                    ~ZeroArea(ret.triangles[i].V1, ret.triangles[i].V2, ret.triangles[i].V3)

Sign(n) == IF n > 0 THEN 1 ELSE IF n < 0 THEN 0 - 1 ELSE 0

\* The cross product lies along one axis: two of its components are zero.
AlongAxis(v) == Cardinality({f \in {"X", "Y", "Z"} : v[f] # 0}) = 1

ZeroExtents(b) == Cardinality({f \in {"dx", "dy", "dz"} : b[f] = 0})

\* C23 as stated: a box with exactly one zero extent and two positive ones is
\* built: no error, 12 triangles.
C23_AsStated ==
    (Returned /\ call.op \in BoxOps /\ ZeroExtents(boxOf(call)) = 1
        /\ ~SomeNegative(boxOf(call))) =>
        /\ ret.err = Nil
        /\ Len(ret.triangles) = 12

\* C23 amended: such a box passes the check of the dimensions (the error is not
\* "negative dimensions not allowed") but createBox fails at the first face
\* without area: "failed to create quad", an STLError, and no triangle.
C23_FlatBoxRejected ==
    (Returned /\ call.op \in BoxOps /\ ZeroExtents(boxOf(call)) = 1
        /\ ~SomeNegative(boxOf(call))) =>
        /\ ret.err # Nil
        /\ ret.err.Type = "STL"
        /\ Head(ret.err.Message) = "failed to create quad"
        /\ ret.triangles = <<>>

\* createBox was called with depth 0 and positive width and height.
C23_Witness ==
    /\ Returned
    /\ call.op = "createBox"
    /\ call.depth = 0
    /\ call.width > 0
    /\ call.height > 0
    /\ ret.err # Nil

\* ------------------------------------------------------ a failing column
\* Some triangle of the list is a horizontal face of the column at pos: its
\* vertices span the footprint of the column in X and in Y.
ColumnPresent(triangles, pos) ==
    \E i \in 1..Len(triangles) :
        /\ { v.X : v \in TriVertices(triangles[i]) } = {pos[1], pos[1] + CellSize}
        /\ { v.Y : v \in TriVertices(triangles[i]) } = {pos[2], pos[2] + CellSize}

\* C24: when the column of one day fails, the result of the columns producer
\* still holds the column of every other day with a count above 0, of the same
\* year and of the other years.
C24_AsStated ==
    (Received("columns") /\ absorbed # {}) =>
        \A i \in 1..Len(contributions) : \A c \in ActiveDays(contributions[i]) :
            PositionOf(contributions, i, c) \notin absorbed =>
                ColumnPresent(results["columns"].triangles, PositionOf(contributions, i, c))

\* --------------------------------------------- the footprint of the model
\* One call of CalculateMultiYearDimensions, with its year count drawn.
DimensionsInit ==
    /\ \E n \in (0 - MaxYears)..MaxYearCount :
          call = [op |-> "CalculateMultiYearDimensions", yearCount |-> n]
    /\ ret = NoRet
    /\ PipelineIdle

CallCalculateMultiYearDimensions ==
    /\ call.op = "CalculateMultiYearDimensions"
    /\ ret = NoRet
    /\ ret' = CalculateMultiYearDimensions(call.yearCount)
    /\ UNCHANGED <<call, pipelineVars>>

DimensionsNext == CallCalculateMultiYearDimensions

DimensionsSpec == DimensionsInit /\ [][DimensionsNext]_vars

CornerYear(weeks, days) ==
    [w \in 1..weeks |->
        [d \in 1..days |-> [ContributionCount |-> IF w = weeks /\ d = days THEN 1 ELSE 0]]]

\* One to MaxYears years of 1..MaxWeeks + 1 weeks, all of whole weeks but one,
\* which may have a day more than a week has.
FootprintGrids ==
    { [y \in 1..n |-> IF y = odd THEN CornerYear(weeks, days)
                      ELSE CornerYear(weeks, DaysPerWeek)] :
        n \in 1..MaxYears, odd \in 1..MaxYears,
        weeks \in 1..(MaxWeeks + 1),
        days \in {DaysPerWeek, DaysPerWeek + 1} }

\* GenerateSTLRange called on one of these grids.
FootprintInit ==
    /\ call = NoCall
    /\ ret = NoRet
    /\ entry = "GenerateSTLRange"
    /\ contributions \in FootprintGrids
    /\ outputPath = "out.stl"
    /\ username = "user"
    /\ absorbed = {}
    /\ level = INFO
    /\ pc = "start"
    /\ dimensions = NoDimensions
    /\ maxContribution = 0
    /\ status = "running"
    /\ err = Nil
    /\ writes = 0
    /\ geometry = [returned |-> FALSE, err |-> Nil]
    /\ remaining = {}
    /\ cur = "none"
    /\ modelTriangles = <<>>
    /\ order = <<>>
    /\ closed = [n \in Producers |-> FALSE]
    /\ wg = 0
    /\ pcP = [n \in Producers |-> "idle"]
    /\ results = [n \in Producers |-> NoResult]
    /\ failed = {}

\* GenerateSTLRange up to the return of generateModelGeometry.
FootprintNext ==
    \/ GenerateSTLRange
    \/ ValidateInput
    \/ CalculateDimensions
    \/ generateModelGeometry
    \/ generateBase
    \/ generateColumnsForYearRange
    \/ generateText
    \/ generateLogo
    \/ \E n \in Producers : Done(n)
    \/ WaitGroupWait
    \/ CloseChannels

FootprintSpec == FootprintInit /\ [][FootprintNext]_vars

\* C25: in a run whose input passed validateInput, every vertex of every column
\* is at least CellSize inside the top face of the base slab, the rectangle
\* [0, innerWidth] x [0, innerDepth].
C25_AsStated ==
    Received("columns") =>
        \A i \in 1..Len(results["columns"].triangles) :
            \A v \in TriVertices(results["columns"].triangles[i]) :
                /\ CellSize <= v.X
                /\ v.X <= dimensions.innerWidth - CellSize
                /\ CellSize <= v.Y
                /\ v.Y <= dimensions.innerDepth - CellSize

\* --------------------------------------------------- heights in a run
\* All the counts of the input.
AllCounts ==
    UNION { { contributions[i][c[1]][c[2]].ContributionCount : c \in DaysOf(contributions[i]) } :
              i \in 1..Len(contributions) }

\* Some triangle of the list is the top face of a column at pos of height h.
TopAt(triangles, pos, h) ==
    \E i \in 1..Len(triangles) :
        /\ { v.X : v \in TriVertices(triangles[i]) } = {pos[1], pos[1] + CellSize}
        /\ { v.Y : v \in TriVertices(triangles[i]) } = {pos[2], pos[2] + CellSize}
        /\ { v.Z : v \in TriVertices(triangles[i]) } = {h}

\* C27: in a run of GenerateSTLRange the heights are normalised by the largest
\* count of all years: every column sent reaches from 0 to a height between
\* MinHeight and MaxHeight, and a day with the largest count gets MaxHeight.
C27_Heights ==
    (entry = "GenerateSTLRange" /\ pcP["columns"] = "returning" /\ Received("columns")) =>
        /\ maxContribution = Max(AllCounts)
        /\ \A i \in 1..Len(results["columns"].triangles) :
              \A v \in TriVertices(results["columns"].triangles[i]) :
                  v.Z = 0 \/ (MinHeight <= v.Z /\ v.Z <= MaxHeight)
        /\ absorbed = {} =>
              \A i \in 1..Len(contributions) : \A c \in ActiveDays(contributions[i]) :
                  contributions[i][c[1]][c[2]].ContributionCount = Max(AllCounts) =>
                      TopAt(results["columns"].triangles, PositionOf(contributions, i, c),
                            MaxHeight)

\* Two years were built, the largest count being in the second only.
C27_Witness ==
    /\ entry = "GenerateSTLRange"
    /\ pcP["columns"] = "returning"
    /\ Received("columns")
    /\ absorbed = {}
    /\ Len(contributions) = 2
    /\ findMaxContributions(contributions[1]) < findMaxContributions(contributions[2])
    /\ Len(results["columns"].triangles) > 12

\* -------------------------------------------------------- temporary files
\* How a call of writeTempFont or getEmbeddedImage ends: normally, or with the
\* failure of ReadFile, of CreateTemp or of Write.
TempOutcomes == {"ok", "read", "create", "write"}

\* writeTempFont and getEmbeddedImage (assets.go) on the set files of the
\* temporary files that exist: the file is there on the normal return only; after
\* a failed Write it has been created and removed again.
\* Returns [files, created, cleanup, err]; cleanup is the file its closure removes.
writeTemp(outcome, name, files) ==
    LET font == name # "image"
    IN  CASE outcome = "ok" ->
               [files |-> files \cup {name}, created |-> {name}, cleanup |-> name, err |-> Nil]
          [] outcome = "read" ->
               [files |-> files, created |-> {}, cleanup |-> "none",
                err |-> New("IO", IF font THEN "failed to read embedded font"
                                  ELSE "failed to read embedded image", Foreign("read"))]
          [] outcome = "create" ->
               [files |-> files, created |-> {}, cleanup |-> "none",
                err |-> New("IO", IF font THEN "failed to create temp font file"
                                  ELSE "failed to create temp image file", Foreign("create"))]
          [] OTHER ->
               [files |-> (files \cup {name}) \ {name}, created |-> {name}, cleanup |-> "none",
                err |-> New("IO", IF font THEN "failed to write font to temp file"
                                  ELSE "failed to write image to temp file", Foreign("write"))]

\* The calls: the outcomes of the two font files (renderText) or of the image
\* file (GenerateImageGeometry, temp1), and whether LoadFontFace, os.Open,
\* png.Decode and the CreateCube calls of the voxels succeed.
TempCalls ==
    [op : {"renderText", "GenerateImageGeometry"}, temp1 : TempOutcomes, temp2 : TempOutcomes,
     load : BOOLEAN, open : BOOLEAN, decode : BOOLEAN, cube : BOOLEAN]

TempStart ==
    [pc |-> "start", files |-> {}, created |-> {}, cleanup |-> "none", err |-> Nil]

TempInit ==
    /\ call \in { c \in TempCalls :
                    /\ c.op = "renderText" => c.open /\ c.decode
                    /\ c.op = "GenerateImageGeometry" => c.load /\ c.temp2 = "ok" }
    /\ ret = TempStart
    /\ PipelineIdle

\* The function returns e; run tells whether a deferred cleanup() runs.
TempReturn(e, run) ==
    ret' = [ret EXCEPT !.pc = "returned", !.err = e,
                       !.files = IF run THEN ret.files \ {ret.cleanup} ELSE ret.files]

\* renderText, line 310: writeTempFont(PrimaryFont).
WritePrimaryFont ==
    /\ call.op = "renderText"
    /\ ret.pc = "start"
    /\ LET t == writeTemp(call.temp1, "font1", ret.files)
       IN  ret' = [ret EXCEPT !.files = t.files, !.created = ret.created \cup t.created,
                              !.cleanup = t.cleanup,
                              !.pc = IF t.err # Nil THEN "fallback" ELSE "load"]
    /\ UNCHANGED <<call, pipelineVars>>

\* renderText, lines 311-317: writeTempFont(FallbackFont) after the primary failed.
WriteFallbackFont ==
    /\ call.op = "renderText"
    /\ ret.pc = "fallback"
    /\ LET t == writeTemp(call.temp2, "font2", ret.files)
       IN  IF t.err # Nil
           THEN TempReturn(New("IO", "failed to load any fonts", t.err), FALSE)
           ELSE ret' = [ret EXCEPT !.files = t.files, !.created = ret.created \cup t.created,
                                   !.cleanup = t.cleanup, !.pc = "load"]
    /\ UNCHANGED <<call, pipelineVars>>

\* renderText, lines 319-321: dc.LoadFontFace; no cleanup has been deferred yet.
LoadFontFace ==
    /\ call.op = "renderText"
    /\ ret.pc = "load"
    /\ IF ~call.load
       THEN TempReturn(New("IO", "failed to load font", Foreign("font")), FALSE)
       ELSE ret' = [ret EXCEPT !.pc = "draw"]
    /\ UNCHANGED <<call, pipelineVars>>

\* renderText, lines 322-355: the voxels; a failed CreateCube returns at line 345,
\* before the `defer cleanup()` of line 353, which runs on the final return only.
DrawText ==
    /\ call.op = "renderText"
    /\ ret.pc = "draw"
    /\ IF ~call.cube
       THEN TempReturn(New("STL", "failed to create cube", Foreign("cube")), FALSE)
       ELSE TempReturn(Nil, TRUE)
    /\ UNCHANGED <<call, pipelineVars>>

\* GenerateImageGeometry, lines 361-364: getEmbeddedImage.
GetEmbeddedImage ==
    /\ call.op = "GenerateImageGeometry"
    /\ ret.pc = "start"
    /\ LET t == writeTemp(call.temp1, "image", ret.files)
       IN  IF t.err # Nil
           THEN TempReturn(t.err, FALSE)
           ELSE ret' = [ret EXCEPT !.files = t.files, !.created = ret.created \cup t.created,
                                   !.cleanup = t.cleanup, !.pc = "render"]
    /\ UNCHANGED <<call, pipelineVars>>

\* GenerateImageGeometry, lines 378-380: `defer cleanup()`, then renderImage,
\* which fails at os.Open, at png.Decode or at a CreateCube, or succeeds.
RenderImage ==
    /\ call.op = "GenerateImageGeometry"
    /\ ret.pc = "render"
    /\ IF ~call.open THEN TempReturn(New("IO", "failed to open image", Foreign("open")), TRUE)
       ELSE IF ~call.decode
       THEN TempReturn(New("IO", "failed to decode PNG", Foreign("decode")), TRUE)
       ELSE IF ~call.cube
       THEN TempReturn(New("STL", "failed to create cube", Foreign("cube")), TRUE)
       ELSE TempReturn(Nil, TRUE)
    /\ UNCHANGED <<call, pipelineVars>>

TempNext ==
    \/ WritePrimaryFont
    \/ WriteFallbackFont
    \/ LoadFontFace
    \/ DrawText
    \/ GetEmbeddedImage
    \/ RenderImage

TempSpec == TempInit /\ [][TempNext]_vars

\* C28: when renderText or GenerateImageGeometry has returned, on any path, no
\* temporary file it created is left.
C28_AsStated ==
    (call.op \in {"renderText", "GenerateImageGeometry"} /\ ret.pc = "returned")
        => ret.files = {}

\* ------------------------------------------------------- the logger alone
LogLevels == DEBUG..ERROR

LogMessages == {"a", "b"}

\* Mutant: the level is not consulted.
logfOutput_always(lvl, msgLevel, msg) ==
    LET out == [logger |-> msgLevel, msg |-> msg]
    IN  IF msgLevel = WARNING THEN <<out, out>> ELSE <<out>>

\* logf, lines 69-86: the calls of log.Logger.Output it makes, each on the
\* logger of the message's severity; the WARNING case calls Output twice.
logfOutput(lvl, msgLevel, msg) ==
    LET out == [logger |-> msgLevel, msg |-> msg]
    IN  IF lvl <= msgLevel
        THEN IF msgLevel = WARNING THEN <<out, out>> ELSE <<out>>
        ELSE <<>>

\* GetLogger: the singleton starts at INFO. ret.set is the level last given to
\* SetLevel, ret.made and ret.err are the Output calls and the result of the last
\* logging call, ret.calls counts the calls.
LoggerInit ==
    /\ call = [op |-> "GetLogger", level |-> INFO, msg |-> ""]
    /\ ret = [set |-> INFO, made |-> <<>>, err |-> Nil, calls |-> 0]
    /\ PipelineIdle

CallSetLevel ==
    /\ ret.calls < MaxCalls
    /\ \E l \in LogLevels :
         /\ level' = l
         /\ call' = [op |-> "SetLevel", level |-> l, msg |-> ""]
         /\ ret' = [set |-> l, made |-> <<>>, err |-> Nil, calls |-> ret.calls + 1]
    /\ UNCHANGED <<inputVars, mainVars, asmVars, prodVars>>

\* Debug, Info, Warning and Error: logf with the severity of the method.
CallLogf ==
    /\ ret.calls < MaxCalls
    /\ \E msgLevel \in LogLevels, msg \in LogMessages :
       \E e \in logf(msgLevel) :
         /\ call' = [op |-> "logf", level |-> msgLevel, msg |-> msg]
         /\ ret' = [ret EXCEPT !.made = logfOutput(level, msgLevel, msg), !.err = e,
                               !.calls = ret.calls + 1]
    /\ UNCHANGED pipelineVars

LoggerNext ==
    \/ CallSetLevel
    \/ CallLogf

LoggerSpec == LoggerInit /\ [][LoggerNext]_vars

====
